---- MODULE Spec2Model ----
(***************************************************************************)
(* Event dispatch and one-shot listener resolution of rpd.client.Client.   *)
(*                                                                         *)
(* The client keeps, per event name, a list of (future, condition) pairs   *)
(* (Client._listeners) and, as attributes named on_<event>, at most one    *)
(* handler per event.  dispatch(event, *args, **kwargs) walks the list of  *)
(* the event, resolves or fails the futures whose condition matched or     *)
(* raised, purges the resolved, failed and cancelled ones, and schedules   *)
(* the handler as an asyncio task.  The scheduling is single-threaded and  *)
(* cooperative, so one call of dispatch is one atomic step.                *)
(*                                                                         *)
(* Indices are 1-based here and 0-based in the source.                     *)
(***************************************************************************)
EXTENDS Integers, Sequences, FiniteSets, TLC

\* ---------------------------------------------------------------- bounds
MaxWaiters == 3     \* futures ever registered
MaxHandlerWaiters == 2  \* futures ever registered while handlers are registered too
MaxArgs == 2        \* positional arguments of one dispatch
MaxHandlerArgs == 1     \* positional arguments, while handlers are registered too
MaxTasks == 1       \* scheduled handler tasks not yet run
MaxQueued == 2      \* the same, while at most MaxTaskWaiters futures are registered
MaxTaskWaiters == 1

\* ---------------------------------------------------------------- inputs
Events == {"ready", "message", "error"}
WaiterEvents == {"ready"}               \* the event dispatched while no handler exists
HandlerEvents == {"message", "error"}   \* events dispatched while handlers are registered
Values == {"X", "Y"}
Waiters == 1..MaxWaiters
ArgTuples == UNION {[1..n -> Values] : n \in 0..MaxArgs}
HandlerArgTuples == UNION {[1..n -> Values] : n \in 0..MaxHandlerArgs}
KwArgs == {<<>>, <<"k">>}
\* conditions a caller may register:
\*   always  lambda *a: True
\*   never   lambda *a: False
\*   isX     lambda m: m == "X"      (TypeError unless called with one argument)
Conditions == {"always", "never", "isX"}
\* coroutine functions a caller may register as handlers
Handlers == {"h1", "h2"}
\* what one run of a handler coroutine may do
Behaviours == {"ok", "raise", "cancel"}

\* listeners  Client._listeners: event -> the list of its waiters (a key is
\*            present or not; a waiter stands for its (future, condition))
\* futures    the future of each waiter: its state and its result
\* conds      the condition of each waiter
\* attrs      the attributes of the client named on_<event>: the handler
\*            that getattr finds, or "absent" (AttributeError)
\* tasks      the tasks created by asyncio.create_task and not yet run
\* last       the last call made: its arguments, the locals of dispatch (the
\*            list it met, `removed`) and how it ended
VARIABLES listeners, futures, conds, attrs, tasks, last

vars == <<listeners, futures, conds, attrs, tasks, last>>

\* ------------------------------------------------------------ the futures
NoFuture == [state |-> "none", kind |-> "unset", val |-> <<>>]
PendingFuture == [state |-> "pending", kind |-> "unset", val |-> <<>>]
CancelledFuture == [state |-> "cancelled", kind |-> "unset", val |-> <<>>]

\* future.set_result(None), future.set_result(args[0]), future.set_result(args)
ResultNone == [state |-> "resolved", kind |-> "None", val |-> <<>>]
ResultSingle(args) == [state |-> "resolved", kind |-> "single", val |-> <<args[1]>>]
ResultTuple(args) == [state |-> "resolved", kind |-> "tuple", val |-> args]
\* future.set_exception(E)
ResultException == [state |-> "failed", kind |-> "exception", val |-> <<>>]

\* rpd.helpers.MISSING in a boolean context: a sentinel object, always true.
MISSING == TRUE

\* result = condition(*args): "True", "False", or "Raise" when the call raises
condition(c, args) ==
    CASE c = "always" -> "True"
      [] c = "never" -> "False"
      [] c = "isX" -> IF Len(args) # 1 THEN "Raise"
                      ELSE IF args[1] = "X" THEN "True" ELSE "False"

\* the value dispatch stores in a future whose condition returned true
SetResult(args) ==
    IF Len(args) = 0 \/ MISSING THEN ResultNone
    ELSE IF Len(args) = 1 THEN ResultSingle(args)
    ELSE ResultTuple(args)

\* ------------------------------------------------- the loop of dispatch
\* The locals of one dispatch call: the futures as set so far, the list
\* `removed` of indices, the exception that ended the call, if any, and two
\* records of what the loop did: `order`, the futures in the order
\* set_result or set_exception was called on them, and `evaluated`, the
\* futures in the order their condition was called.
LoopStart ==
    [fut |-> futures, removed |-> <<>>, order |-> <<>>, evaluated |-> <<>>,
     error |-> ""]

\* mutant of IsCancelled: the test always fails
NeverCancelled(f) == FALSE

\* if future.cancelled(): the test that guards the evaluation of a condition
IsCancelled(f) == f.state = "cancelled"

\* mutant of Set: the index is not marked for removal
SetWithoutMark(acc, w, i, value) ==
    IF acc.fut[w].state = "pending"
    THEN [acc EXCEPT !.fut[w] = value, !.order = Append(@, w)]
    ELSE [acc EXCEPT !.order = Append(@, w), !.error = "InvalidStateError"]

\* future.set_exception(E) or future.set_result(...), then removed.append(i).
\* A future that is not pending refuses both calls with InvalidStateError,
\* which dispatch does not catch.
Set(acc, w, i, value) ==
    IF acc.fut[w].state = "pending"
    THEN [acc EXCEPT !.fut[w] = value,
                     !.removed = Append(@, i),
                     !.order = Append(@, w)]
    ELSE [acc EXCEPT !.order = Append(@, w), !.error = "InvalidStateError"]

\* mutant of Evaluate: an exception of the condition is not caught
EvaluateUncaught(acc, w, i, args) ==
    LET result == condition(conds[w], args)
        called == [acc EXCEPT !.evaluated = Append(@, w)]
    IN  CASE result = "Raise" -> [called EXCEPT !.error = "Exception"]
          [] result = "True" -> Set(called, w, i, SetResult(args))
          [] OTHER -> called

\* try: result = condition(*args) / except Exception as E: ... / else: ...
\* the body of the loop for one future whose condition is evaluated
Evaluate(acc, w, i, args) ==
    LET result == condition(conds[w], args)
        called == [acc EXCEPT !.evaluated = Append(@, w)]
    IN  CASE result = "Raise" -> Set(called, w, i, ResultException)
          [] result = "True" -> Set(called, w, i, SetResult(args))
          [] OTHER -> called

\* mutant of Visit: the condition of a cancelled future is evaluated too
VisitEvaluatesCancelled(acc, w, i, args) == Evaluate(acc, w, i, args)

\* mutant of Visit: a cancelled future is skipped and not marked for removal
VisitKeepsCancelled(acc, w, i, args) ==
    IF IsCancelled(acc.fut[w]) THEN acc ELSE Evaluate(acc, w, i, args)

\* one iteration of: for i, (future, condition) in enumerate(listeners)
Visit(acc, w, i, args) ==
    IF IsCancelled(acc.fut[w])
    THEN [acc EXCEPT !.removed = Append(@, i)]
    ELSE Evaluate(acc, w, i, args)

\* mutant of ForLoop: the loop ends at the first future it resolves or fails
RECURSIVE ForLoopBreak(_, _, _, _)
ForLoopBreak(acc, lst, i, args) ==
    IF i > Len(lst) \/ acc.error # "" \/ acc.order # <<>> THEN acc
    ELSE ForLoopBreak(Visit(acc, lst[i], i, args), lst, i + 1, args)

\* mutant of ForLoop: a raising condition is not caught and ends the call
RECURSIVE ForLoopUncaught(_, _, _, _)
ForLoopUncaught(acc, lst, i, args) ==
    IF i > Len(lst) \/ acc.error # "" THEN acc
    ELSE IF ~IsCancelled(acc.fut[lst[i]]) /\ condition(conds[lst[i]], args) = "Raise"
         THEN [acc EXCEPT !.evaluated = Append(@, lst[i]), !.error = "Exception"]
         ELSE ForLoopUncaught(Visit(acc, lst[i], i, args), lst, i + 1, args)

\* mutant of ForLoop: the list is walked from its end
RECURSIVE ForLoopBackwards(_, _, _, _)
ForLoopBackwards(acc, lst, i, args) ==
    IF i > Len(lst) \/ acc.error # "" THEN acc
    ELSE LET j == Len(lst) + 1 - i
         IN  ForLoopBackwards(Visit(acc, lst[j], j, args), lst, i + 1, args)

\* the loop; an exception that nothing catches ends it, and the call
RECURSIVE ForLoop(_, _, _, _)
ForLoop(acc, lst, i, args) ==
    IF i > Len(lst) \/ acc.error # "" THEN acc
    ELSE ForLoop(Visit(acc, lst[i], i, args), lst, i + 1, args)

\* ------------------------------------------------ the removal of dispatch
\* del listeners[idx]
DelAt(s, idx) == SubSeq(s, 1, idx - 1) \o SubSeq(s, idx + 1, Len(s))

\* mutant of Reversed: the indices are taken in ascending order
NotReversed(s) == s

\* reversed(removed)
Reversed(s) == [i \in 1..Len(s) |-> s[Len(s) + 1 - i]]

\* mutant of DelEach: only the first of the indices is deleted
RECURSIVE DelFirstOnly(_, _)
DelFirstOnly(s, idxs) ==
    IF idxs = <<>> THEN s ELSE DelAt(s, Head(idxs))

\* for idx in <idxs>: del listeners[idx]
RECURSIVE DelEach(_, _)
DelEach(s, idxs) ==
    IF idxs = <<>> THEN s ELSE DelEach(DelAt(s, Head(idxs)), Tail(idxs))

\* mutant of Pop: the whole mapping is cleared
PopAll(m, event) == [e \in {} |-> <<>>]

\* self._listeners.pop(event)
Pop(m, event) == [e \in DOMAIN m \ {event} |-> m[e]]

\* mutant of Remove: the key is kept when every waiter is removed
RemoveWithoutPop(m, event, lst, removed) ==
    [m EXCEPT ![event] = DelEach(lst, Reversed(removed))]

\* if len(removed) == len(listeners): pop  else: delete the removed indices
Remove(m, event, lst, removed) ==
    IF Len(removed) = Len(lst)
    THEN Pop(m, event)
    ELSE [m EXCEPT ![event] = DelEach(lst, Reversed(removed))]

\* ---------------------------------------------------- the handler lookup
\* event_name = f"on_{event}"
EventName(event) ==
    CASE event = "ready" -> "on_ready"
      [] event = "message" -> "on_message"
      [] event = "error" -> "on_error"

AttrNames == {EventName(e) : e \in Events}

\* the method Client.on_error, an attribute of every client
DefaultOnError == "Client.on_error"

Task(coro, event_name, args, kwargs) ==
    [coro |-> coro, event_name |-> event_name, args |-> args, kwargs |-> kwargs]

\* mutant of Schedule: the error handler stands in for a missing handler
ScheduleOrOnError(q, event, args, kwargs) ==
    LET coro == attrs[EventName(event)] IN
    Append(q, Task(IF coro = "absent" THEN attrs["on_error"] ELSE coro,
                   EventName(event), args, kwargs))

\* mutant of Schedule: the keyword arguments are not passed on
ScheduleWithoutKwargs(q, event, args, kwargs) ==
    LET coro == attrs[EventName(event)] IN
    IF coro = "absent" THEN q
    ELSE Append(q, Task(coro, EventName(event), args, <<>>))

\* try: coro = getattr(self, event_name) / except AttributeError: pass /
\* else: self._schedule_event(coro, event_name, *args, **kwargs)
Schedule(q, event, args, kwargs) ==
    LET coro == attrs[EventName(event)] IN
    IF coro = "absent" THEN q
    ELSE Append(q, Task(coro, EventName(event), args, kwargs))

\* ------------------------------------------------------------- the state
NoCall ==
    [op |-> "none", event |-> "", args |-> <<>>, kwargs |-> <<>>,
     listeners |-> <<>>, removed |-> <<>>, order |-> <<>>, evaluated |-> <<>>,
     scheduled |-> FALSE, outcome |-> "", sink |-> FALSE,
     coro |-> "", event_name |-> "", first |-> "", second |-> "", e_meth |-> ""]

Init ==
    /\ listeners = [e \in {} |-> <<>>]
    /\ futures = [w \in Waiters |-> NoFuture]
    /\ conds = [w \in Waiters |-> "unset"]
    /\ attrs = [a \in AttrNames |-> IF a = "on_error" THEN DefaultOnError ELSE "absent"]
    /\ tasks = <<>>
    /\ last = NoCall

\* listeners = self._listeners.get(event)
Get(m, event) == IF event \in DOMAIN m THEN m[event] ELSE <<>>

Dispatch(event, args, kwargs) ==
    LET lst == Get(listeners, event)
        run == IF lst # <<>> THEN ForLoop(LoopStart, lst, 1, args) ELSE LoopStart
        raised == run.error # ""
        q == IF raised THEN tasks ELSE Schedule(tasks, event, args, kwargs)
    IN  /\ futures' = run.fut
        /\ listeners' = IF lst # <<>> /\ ~raised
                        THEN Remove(listeners, event, lst, run.removed)
                        ELSE listeners
        /\ tasks' = q
        /\ last' = [NoCall EXCEPT !.op = "dispatch", !.event = event,
                                  !.args = args, !.kwargs = kwargs,
                                  !.listeners = lst,
                                  !.removed = run.removed, !.order = run.order,
                                  !.evaluated = run.evaluated,
                                  !.scheduled = (q # tasks),
                                  !.outcome = IF raised THEN run.error ELSE "returned"]
        /\ UNCHANGED <<conds, attrs>>

\* Registration of a waiter: a new pending future and its condition are
\* appended to the list of the event, which is created when absent.
WaitForUpTo(event, c, n) ==
    /\ \E w \in 1..n :
        /\ futures[w].state = "none"
        /\ \A v \in Waiters : v < w => futures[v].state # "none"
        /\ futures' = [futures EXCEPT ![w] = PendingFuture]
        /\ conds' = [conds EXCEPT ![w] = c]
        /\ listeners' = [e \in DOMAIN listeners \cup {event} |->
                            IF e = event THEN Append(Get(listeners, event), w)
                            ELSE listeners[e]]
        /\ last' = [NoCall EXCEPT !.op = "wait_for"]
    /\ UNCHANGED <<attrs, tasks>>

\* The timeout of a waiter, or any other external cancellation: the future
\* is cancelled (a future already done stays as it is); the list is not
\* touched.
Cancel(w) ==
    /\ futures[w].state # "none"
    /\ futures' = [futures EXCEPT ![w] =
                      IF @.state = "pending" THEN CancelledFuture ELSE @]
    /\ last' = [NoCall EXCEPT !.op = "cancel"]
    /\ UNCHANGED <<listeners, conds, attrs, tasks>>

\* mutant of Event: a handler already registered under the name is kept
EventKeepsFirst(name, coro, iscoroutinefunction) ==
    /\ IF ~iscoroutinefunction
       THEN /\ attrs' = attrs
            /\ last' = [NoCall EXCEPT !.op = "event",
                                      !.outcome = "TypeError"]
       ELSE /\ attrs' = [attrs EXCEPT ![name] = IF @ \in Handlers THEN @ ELSE coro]
            /\ last' = [NoCall EXCEPT !.op = "event",
                                      !.event_name = name, !.coro = coro,
                                      !.outcome = "returned"]
    /\ UNCHANGED <<listeners, futures, conds, tasks>>

\* Client.event(coro), coro a function named `name`
Event(name, coro, iscoroutinefunction) ==
    /\ IF ~iscoroutinefunction
       THEN /\ attrs' = attrs
            /\ last' = [NoCall EXCEPT !.op = "event",
                                      !.outcome = "TypeError"]
       ELSE /\ attrs' = [attrs EXCEPT ![name] = coro]
            /\ last' = [NoCall EXCEPT !.op = "event",
                                      !.event_name = name, !.coro = coro,
                                      !.outcome = "returned"]
    /\ UNCHANGED <<listeners, futures, conds, tasks>>

\* await coro(*args, **kwargs): "ok", "raise" (an Exception) or "cancel"
\* (CancelledError).  Client.on_error is no coroutine function: the call
\* raises TypeError, or returns None, which cannot be awaited.
Await(coro, args, kwargs, b) == IF coro = DefaultOnError THEN "raise" ELSE b

\* the outcome of a run of _run_event in which on_error was not called
NoSink(first) ==
    [outcome |-> "returned", sink |-> FALSE, first |-> first, second |-> "",
     e_meth |-> ""]

\* mutant of RunEvent: an exception of the handler is not caught
RunEventUncaught(t, b1, b2) ==
    LET first == Await(t.coro, t.args, t.kwargs, b1)
    IN  IF first = "raise"
        THEN [outcome |-> "escaped", sink |-> FALSE, first |-> first,
              second |-> "", e_meth |-> ""]
        ELSE NoSink(first)

\* mutant of RunEvent: a cancellation of the handler is handled as an error
RunEventCancelIsError(t, b1, b2) ==
    LET first == Await(t.coro, t.args, t.kwargs, b1)
        second == Await(attrs["on_error"], <<t.event_name>> \o t.args, t.kwargs, b2)
    IN  IF first = "ok" THEN NoSink(first)
        ELSE [outcome |-> IF second = "raise" THEN "escaped" ELSE "returned",
              sink |-> TRUE, first |-> first, second |-> second,
              e_meth |-> t.event_name]

\* Client._run_event: `first` is what the await of the handler did, `second`
\* what the await of self.on_error(event_name, *args, **kwargs) did, `e_meth`
\* the first argument of that call.  Around the second await only
\* CancelledError is caught.
RunEvent(t, b1, b2) ==
    LET first == Await(t.coro, t.args, t.kwargs, b1)
        second == Await(attrs["on_error"], <<t.event_name>> \o t.args, t.kwargs, b2)
    IN  CASE first = "ok" -> NoSink(first)
          [] first = "cancel" -> NoSink(first)
          [] OTHER ->
               [outcome |-> IF second = "raise" THEN "escaped" ELSE "returned",
                sink |-> TRUE, first |-> first, second |-> second,
                e_meth |-> t.event_name]

\* The event loop runs the oldest scheduled task.
RunTask(b1, b2) ==
    /\ tasks # <<>>
    /\ LET t == Head(tasks)
           r == RunEvent(t, b1, b2)
       IN  last' = [NoCall EXCEPT !.op = "run",
                                  !.outcome = r.outcome, !.sink = r.sink,
                                  !.first = r.first, !.second = r.second,
                                  !.e_meth = r.e_meth]
    /\ tasks' = Tail(tasks)
    /\ UNCHANGED <<listeners, futures, conds, attrs>>

\* The waiters of an event that has no handler: registration, cancellation
\* and dispatch; no task is ever scheduled.
NextWaiters ==
    \/ \E e \in WaiterEvents, a \in ArgTuples : Dispatch(e, a, <<>>)
    \/ \E e \in WaiterEvents, c \in Conditions : WaitForUpTo(e, c, MaxWaiters)
    \/ \E w \in Waiters : Cancel(w)

SpecWaiters == Init /\ [][NextWaiters]_vars

\* The handlers: every operation, with fewer waiters and arguments.
NextHandlers ==
    \/ \E e \in HandlerEvents, a \in HandlerArgTuples, k \in KwArgs :
          Len(Schedule(tasks, e, a, k)) <= MaxTasks /\ Dispatch(e, a, k)
    \/ \E e \in HandlerEvents, c \in Conditions : WaitForUpTo(e, c, MaxHandlerWaiters)
    \/ \E w \in Waiters : Cancel(w)
    \/ \E e \in HandlerEvents, h \in Handlers, b \in BOOLEAN : Event(EventName(e), h, b)
    \/ \E b1 \in Behaviours, b2 \in Behaviours : RunTask(b1, b2)

SpecHandlers == Init /\ [][NextHandlers]_vars

\* The tasks: several scheduled at once, beside few waiters.
NextTasks ==
    \/ \E e \in HandlerEvents, a \in HandlerArgTuples :
          Len(Schedule(tasks, e, a, <<>>)) <= MaxQueued /\ Dispatch(e, a, <<>>)
    \/ \E e \in HandlerEvents, c \in Conditions : WaitForUpTo(e, c, MaxTaskWaiters)
    \/ \E w \in Waiters : Cancel(w)
    \/ \E e \in HandlerEvents, h \in Handlers, b \in BOOLEAN : Event(EventName(e), h, b)
    \/ \E b1 \in Behaviours, b2 \in Behaviours : RunTask(b1, b2)

SpecTasks == Init /\ [][NextTasks]_vars

\* ------------------------------------------------------------ the claims
\* A step is a call of dispatch exactly when it leaves last.op = "dispatch";
\* the call's event and arguments are then last'.event and last'.args, the
\* list it met is last'.listeners, and the unprimed futures are the futures
\* it met.
Dispatched == last'.op = "dispatch"
Met == last'.listeners
Positions == 1..Len(Met)
CancelledAt == {i \in Positions : futures[Met[i]].state = "cancelled"}
Verdict(i) == condition(conds[Met[i]], last'.args)
TrueAt == {i \in Positions \ CancelledAt : Verdict(i) = "True"}
FalseAt == {i \in Positions \ CancelledAt : Verdict(i) = "False"}
RaiseAt == {i \in Positions \ CancelledAt : Verdict(i) = "Raise"}

Range(s) == {s[i] : i \in 1..Len(s)}

\* the futures listed under the dispatched event when the call has returned
StillListed == Range(Get(listeners', last'.event))

\* C1, as stated: after registrations on one event (no future cancelled), a
\* dispatch whose arguments satisfy exactly one registered condition resolves
\* that waiter and removes it, and every other waiter of the event is still
\* pending and still listed.
C1_EveryOtherStillPending ==
    [][(Dispatched /\ CancelledAt = {} /\ Cardinality(TrueAt) = 1)
        => \A i \in Positions :
              IF i \in TrueAt
              THEN /\ futures'[Met[i]].state = "resolved"
                   /\ Met[i] \notin StillListed
              ELSE /\ futures'[Met[i]].state = "pending"
                   /\ Met[i] \in StillListed]_vars

\* C1, amended: ... resolves that waiter and removes it, and every other
\* waiter whose condition returned false is still pending and still listed
\* (one whose condition raised is failed and removed).
C1_OthersReturningFalseStillPending ==
    [][(Dispatched /\ CancelledAt = {} /\ Cardinality(TrueAt) = 1)
        => \A i \in Positions :
              CASE i \in TrueAt ->
                      /\ futures'[Met[i]].state = "resolved"
                      /\ Met[i] \notin StillListed
                [] i \in FalseAt ->
                      /\ futures'[Met[i]].state = "pending"
                      /\ Met[i] \in StillListed
                [] OTHER ->
                      /\ futures'[Met[i]].state = "failed"
                      /\ Met[i] \notin StillListed]_vars

\* a dispatch has just returned that met three waiters, none cancelled,
\* resolved exactly one of them and left the other two pending and listed
C1_Witness ==
    /\ last.op = "dispatch"
    /\ Len(last.listeners) = 3
    /\ Len(last.removed) = 1
    /\ \A i \in 1..3 : futures[last.listeners[i]].state \in {"resolved", "pending"}
    /\ Cardinality({i \in 1..3 : futures[last.listeners[i]].state = "resolved"}) = 1
    /\ Len(Get(listeners, last.event)) = 2

IsIncreasing(s) == \A i, j \in 1..Len(s) : i < j => s[i] < s[j]

\* the positions in Met of the futures of `ws`, in the order of `ws`
PositionsOf(ws) == [n \in 1..Len(ws) |-> CHOOSE i \in Positions : Met[i] = ws[n]]

\* C2, as stated: when two or more registered conditions match, all matching
\* waiters are resolved by the one call, in registration order, and every
\* non-matching waiter is still pending (and listed) afterwards.
C2_EveryNonMatchingStillPending ==
    [][(Dispatched /\ Cardinality(TrueAt) >= 2)
        => /\ \A i \in TrueAt : futures'[Met[i]].state = "resolved"
           /\ IsIncreasing(PositionsOf(last'.order))
           /\ \A i \in Positions \ TrueAt :
                 /\ futures'[Met[i]].state = "pending"
                 /\ Met[i] \in StillListed]_vars

\* C2, amended: ... all matching waiters are resolved by the one call, in
\* registration order, and every waiter whose condition returned false is
\* still pending (and listed) afterwards.
C2_AllMatchingResolvedInOrder ==
    [][(Dispatched /\ Cardinality(TrueAt) >= 2)
        => /\ \A i \in TrueAt :
                 /\ futures[Met[i]].state = "pending"
                 /\ futures'[Met[i]].state = "resolved"
                 /\ Met[i] \notin StillListed
           /\ Range(last'.order) = {Met[i] : i \in TrueAt \cup RaiseAt}
           /\ IsIncreasing(PositionsOf(last'.order))
           /\ \A i \in FalseAt :
                 /\ futures'[Met[i]].state = "pending"
                 /\ Met[i] \in StillListed]_vars

\* a dispatch has just returned that resolved the first and the third of
\* three listed waiters, in that order, and left the second pending
C2_Witness ==
    /\ last.op = "dispatch"
    /\ Len(last.listeners) = 3
    /\ last.removed = <<1, 3>>
    /\ last.order = <<last.listeners[1], last.listeners[3]>>
    /\ futures[last.listeners[1]].state = "resolved"
    /\ futures[last.listeners[3]].state = "resolved"
    /\ futures[last.listeners[2]].state = "pending"
    /\ Get(listeners, last.event) = <<last.listeners[2]>>

\* the value the arity of the arguments calls for
ByArity(args) ==
    IF Len(args) = 0 THEN ResultNone
    ELSE IF Len(args) = 1 THEN ResultSingle(args)
    ELSE ResultTuple(args)

\* C3: a waiter whose condition returned true is resolved with None when
\* dispatch had no positional argument, with the argument itself when it had
\* one, and with the tuple of the arguments when it had two or more.
C3_ResultByArity ==
    [][Dispatched => \A i \in TrueAt : futures'[Met[i]] = ByArity(last'.args)]_vars

\* the locals of the same call, had the waiter at position i been absent
Without(i) == ForLoop(LoopStart, DelAt(Met, i), 1, last'.args)
ListedWithout(i) == Range(DelEach(DelAt(Met, i), Reversed(Without(i).removed)))

\* C4: a condition that raises fails its own waiter, which is removed, and
\* no other: every sibling in the list, before or after it, is evaluated in
\* the same call and ends up as it would have, had the raising waiter been
\* absent.
C4_RaisingFailsOnlyItsOwnWaiter ==
    [][Dispatched
        => \A i \in RaiseAt :
              /\ futures[Met[i]].state = "pending"
              /\ futures'[Met[i]] = ResultException
              /\ Met[i] \notin StillListed
              /\ \A j \in Positions \ {i} :
                    /\ j \notin CancelledAt => Met[j] \in Range(last'.evaluated)
                    /\ futures'[Met[j]] = Without(i).fut[Met[j]]
                    /\ Met[j] \in StillListed <=> Met[j] \in ListedWithout(i)]_vars

\* a dispatch has just returned that met a waiter it resolved, then one whose
\* condition raised, then one it left pending
C4_Witness ==
    /\ last.op = "dispatch"
    /\ Len(last.listeners) = 3
    /\ futures[last.listeners[1]].state = "resolved"
    /\ futures[last.listeners[2]].state = "failed"
    /\ futures[last.listeners[3]].state = "pending"
    /\ last.evaluated = last.listeners
    /\ Get(listeners, last.event) = <<last.listeners[3]>>

\* C5: a cancelled (timed out) waiter is never resolved or failed afterwards:
\* a later dispatch of its event does not evaluate its condition, sets
\* nothing on it, returns normally and removes it from the list.
C5_CancelledNeverResolved ==
    [][/\ \A w \in Waiters :
             futures[w].state = "cancelled" => futures'[w] = futures[w]
       /\ Dispatched
            => \A i \in CancelledAt :
                  /\ Met[i] \notin Range(last'.evaluated)
                  /\ Met[i] \notin Range(last'.order)
                  /\ Met[i] \notin StillListed
                  /\ last'.outcome = "returned"]_vars

\* a dispatch has just returned that met a cancelled waiter whose condition
\* accepts every call, and removed it
C5_Witness ==
    /\ last.op = "dispatch"
    /\ \E i \in 1..Len(last.listeners) :
          /\ futures[last.listeners[i]].state = "cancelled"
          /\ conds[last.listeners[i]] = "always"
          /\ last.listeners[i] \notin Range(Get(listeners, last.event))

Listed == UNION {Range(listeners[e]) : e \in DOMAIN listeners}

C7_NoWaiterNoHandlerNoOp ==
    [][(Dispatched /\ Met = <<>> /\ attrs[EventName(last'.event)] = "absent")
        => /\ last'.outcome = "returned"
           /\ ~last'.scheduled
           /\ UNCHANGED <<listeners, futures, conds, attrs, tasks>>]_vars

\* a dispatch of an event without waiter or handler has just returned, while
\* another event has a waiter and a task is scheduled
C7_Witness ==
    /\ last.op = "dispatch"
    /\ last.listeners = <<>>
    /\ attrs[EventName(last.event)] = "absent"
    /\ ~last.scheduled
    /\ DOMAIN listeners # {}
    /\ tasks # <<>>

Terminal == {"resolved", "failed", "cancelled"}

\* C8: a waiter starts pending and makes at most one transition, into one
\* of resolved, failed and cancelled; once there, neither its state nor its
\* value changes again, and dispatch calls set_result or set_exception only
\* on a pending future, once.
C8_AtMostOneTransition ==
    [][/\ \A w \in Waiters :
             /\ futures[w].state = "none" => futures'[w] \in {NoFuture, PendingFuture}
             /\ futures[w].state = "pending"
                   => futures'[w] = PendingFuture \/ futures'[w].state \in Terminal
             /\ futures[w].state \in Terminal => futures'[w] = futures[w]
       /\ Dispatched
            => \A n \in 1..Len(last'.order) :
                  /\ futures[last'.order[n]].state = "pending"
                  /\ \A k \in 1..Len(last'.order) :
                        last'.order[k] = last'.order[n] => k = n]_vars

\* a resolved, a failed and a cancelled waiter exist, and the dispatch that
\* has just returned met the cancelled one, whose condition accepts its call
C8_Witness ==
    /\ last.op = "dispatch"
    /\ \E u, v \in Waiters : futures[u].state = "resolved" /\ futures[v].state = "failed"
    /\ \E i \in 1..Len(last.listeners) :
          /\ futures[last.listeners[i]].state = "cancelled"
          /\ condition(conds[last.listeners[i]], last.args) = "True"

\* C9: no list of the mapping is ever empty: when a dispatch removes every
\* waiter of its event, the key of the event is removed.
C9_NoEmptyList ==
    /\ \A e \in DOMAIN listeners : listeners[e] # <<>>
    /\ (last.op = "dispatch" /\ last.listeners # <<>>
            /\ Len(last.removed) = Len(last.listeners))
          => last.event \notin DOMAIN listeners

\* two waiters with always-true conditions were listed under "ready" and one
\* dispatch("ready") resolved both: the key is gone
C9_Witness ==
    /\ last.op = "dispatch" /\ last.event = "ready" /\ last.args = <<>>
    /\ Len(last.listeners) = 2
    /\ \A i \in 1..2 : /\ conds[last.listeners[i]] = "always"
                       /\ futures[last.listeners[i]].state = "resolved"
    /\ "ready" \notin DOMAIN listeners

\* C10: a dispatch of an event that has a handler schedules exactly one
\* task, of that handler with the arguments of the call, whatever the
\* waiters of the event are and whatever becomes of them in the call.
C10_HandlerScheduledOnce ==
    [][(Dispatched /\ attrs[EventName(last'.event)] # "absent")
        => tasks' = Append(tasks, Task(attrs[EventName(last'.event)],
                                       EventName(last'.event),
                                       last'.args, last'.kwargs))]_vars

\* a dispatch with a keyword argument has just returned that resolved one
\* waiter, met a cancelled one, and scheduled a registered handler
C10_Witness ==
    /\ last.op = "dispatch"
    /\ last.scheduled
    /\ last.kwargs # <<>>
    /\ Len(last.listeners) = 2
    /\ \E i, j \in 1..2 : /\ futures[last.listeners[i]].state = "resolved"
                          /\ futures[last.listeners[j]].state = "cancelled"
    /\ tasks # <<>>
    /\ tasks[Len(tasks)].coro \in Handlers
    /\ tasks[Len(tasks)].args = last.args
\* A step is the run of a scheduled task exactly when it leaves
\* last.op = "run"; the task is then Head(tasks), and last'.first and
\* last'.second are what the handler and on_error did.
Ran == last'.op = "run"

\* C11: an error raised by a scheduled handler is caught inside the task of
\* the handler and passed to on_error with the event name; the dispatch that
\* scheduled the handler returned without running it, and the failing run
\* changes no waiter and no list and leaves every other task scheduled.
C11_HandlerErrorRoutedToOnError ==
    [][/\ (Dispatched /\ last'.scheduled)
            => /\ last'.outcome = "returned"
               /\ last'.first = ""
               /\ tasks'[Len(tasks')].coro = attrs[EventName(last'.event)]
       /\ (Ran /\ last'.first = "raise")
            => /\ last'.sink
               /\ last'.e_meth = Head(tasks).event_name
               /\ futures' = futures
               /\ listeners' = listeners
               /\ attrs' = attrs
               /\ tasks' = Tail(tasks)]_vars

\* a registered handler has just raised while a waiter is pending and
\* another task is scheduled; on_error was called with the event name
C11_Witness ==
    /\ last.op = "run"
    /\ last.first = "raise"
    /\ last.sink
    /\ last.e_meth = "on_message"
    /\ tasks # <<>>
    /\ \E w \in Waiters : futures[w].state = "pending" /\ w \in Listed

C13_OnErrorFailureSwallowed ==
    [][(Ran /\ last'.second = "raise") => last'.outcome = "returned"]_vars

\* C16: a handler cancelled while it runs ends its task silently: on_error
\* is not called and no exception escapes; a cancellation that arrives while
\* on_error runs is swallowed as well.
C16_CancelledTaskSilent ==
    [][Ran => /\ last'.first = "cancel"
                  => /\ ~last'.sink
                     /\ last'.second = ""
                     /\ last'.outcome = "returned"
              /\ last'.second = "cancel" => last'.outcome = "returned"
              /\ tasks' = Tail(tasks)
              /\ UNCHANGED <<listeners, futures, conds, attrs>>]_vars

\* a registered handler has just been cancelled while it ran, another task
\* still being scheduled: on_error was not called and the run returned
C16_Witness ==
    /\ last.op = "run"
    /\ last.first = "cancel"
    /\ ~last.sink
    /\ last.outcome = "returned"
    /\ tasks # <<>>

\* C17: an event has at most one handler and the last registration wins: a
\* registration replaces the handler of its name and no other, nothing else
\* changes a handler, and a dispatch schedules one task at most, of the
\* handler its event has at that time.
C17_LastRegistrationWins ==
    [][/\ IF last'.op = "event" /\ last'.outcome = "returned"
          THEN attrs' = [attrs EXCEPT ![last'.event_name] = last'.coro]
          ELSE attrs' = attrs
       /\ Dispatched
            => \/ tasks' = tasks
               \/ /\ Len(tasks') = Len(tasks) + 1
                  /\ SubSeq(tasks', 1, Len(tasks)) = tasks
                  /\ tasks'[Len(tasks')].coro = attrs[EventName(last'.event)]
                  /\ tasks'[Len(tasks')].event_name = EventName(last'.event)]_vars

\* h1, then h2 were registered as on_message, each followed by a dispatch of
\* "message": the first task is of h1, the second, just scheduled, of h2
C17_Witness ==
    /\ last.op = "dispatch"
    /\ last.event = "message"
    /\ last.scheduled
    /\ attrs["on_message"] = "h2"
    /\ Len(tasks) = 2
    /\ tasks[1].coro = "h1" /\ tasks[1].event_name = "on_message"
    /\ tasks[2].coro = "h2" /\ tasks[2].event_name = "on_message"

\* the futures of Met that dispatch did not find cancelled, in the order of Met
RECURSIVE NotCancelledOf(_)
NotCancelledOf(lst) ==
    IF lst = <<>> THEN <<>>
    ELSE (IF futures[Head(lst)].state = "cancelled" THEN <<>> ELSE <<Head(lst)>>)
         \o NotCancelledOf(Tail(lst))

\* C14: within one dispatch the condition of each waiter of the event that
\* is not cancelled is evaluated exactly once, in registration order; when
\* the task of the handler exists, every condition has been evaluated and
\* the marked waiters are gone from the list; and the handler does not run
\* before dispatch has returned: the task is the last of the queue, and the
\* step runs no task.
C14_EvaluatedOnceInOrderThenScheduled ==
    [][Dispatched
        => /\ last'.evaluated = NotCancelledOf(Met)
           /\ last'.scheduled
                => /\ \A i \in Positions :
                         (i \in CancelledAt \/ Verdict(i) # "False")
                            => Met[i] \notin StillListed
                   /\ Len(tasks') = Len(tasks) + 1
                   /\ SubSeq(tasks', 1, Len(tasks)) = tasks
                   /\ last'.first = ""]_vars

\* a dispatch has just returned that evaluated two waiters in registration
\* order, resolved and removed the first, kept the second, and scheduled
\* the handler, which has not run
C14_Witness ==
    /\ last.op = "dispatch"
    /\ last.scheduled
    /\ Len(last.listeners) = 2
    /\ last.evaluated = last.listeners
    /\ futures[last.listeners[1]].state = "resolved"
    /\ Get(listeners, last.event) = <<last.listeners[2]>>
    /\ tasks # <<>>
    /\ tasks[Len(tasks)].coro \in Handlers
    /\ tasks[Len(tasks)].event_name = EventName(last.event)

\* the waiters at the positions of Met where the condition returned false
RECURSIVE FalseOf(_)
FalseOf(i) ==
    IF i > Len(Met) THEN <<>>
    ELSE (IF i \in FalseAt THEN <<Met[i]>> ELSE <<>>) \o FalseOf(i + 1)

\* C15: when a dispatch removes some but not all waiters of its event, the
\* list that remains holds exactly the waiters whose condition returned
\* false, each once, in the order they had before.
C15_RemainingKeepOrder ==
    [][(Dispatched /\ last'.removed # <<>> /\ Len(last'.removed) < Len(Met))
        => /\ last'.event \in DOMAIN listeners'
           /\ listeners'[last'.event] = FalseOf(1)]_vars

\* a dispatch has just returned that met three waiters and removed the first
\* two, leaving the third
C15_Witness ==
    /\ last.op = "dispatch"
    /\ Len(last.listeners) = 3
    /\ last.removed = <<1, 2>>
    /\ Get(listeners, last.event) = <<last.listeners[3]>>
    /\ futures[last.listeners[3]].state = "pending"

\* C18: every waiter in a list is pending or cancelled: a waiter that a
\* dispatch resolved or failed was removed from its list by that dispatch.
C18_ListedArePendingOrCancelled ==
    /\ \A w \in Listed : futures[w].state \in {"pending", "cancelled"}
    /\ last.op = "dispatch"
         => \A i \in 1..Len(last.listeners) :
               futures[last.listeners[i]].state \in {"resolved", "failed"}
                  => last.listeners[i] \notin Listed

\* a dispatch has just returned that resolved one waiter, failed another
\* and kept a third, which is pending, in the list
C18_Witness ==
    /\ last.op = "dispatch"
    /\ Len(last.listeners) = 3
    /\ \E i, j \in 1..3 : /\ futures[last.listeners[i]].state = "resolved"
                          /\ futures[last.listeners[j]].state = "failed"
    /\ Len(Get(listeners, last.event)) = 1
    /\ \A w \in Listed : futures[w].state = "pending"

\* C19: a dispatch of an event touches only the entry of that event: the
\* list of every other event and the futures of its waiters are unchanged,
\* no handler is changed, and the only task the call can schedule is of the
\* handler found under the name on_<event>.
C19_OnlyOwnEntry ==
    [][Dispatched
        => /\ \A e \in DOMAIN listeners \ {last'.event} :
                 e \in DOMAIN listeners' /\ listeners'[e] = listeners[e]
           /\ DOMAIN listeners' \subseteq DOMAIN listeners
           /\ \A w \in Waiters : w \notin Range(Met) => futures'[w] = futures[w]
           /\ conds' = conds
           /\ attrs' = attrs
           /\ \/ tasks' = tasks
              \/ tasks' = Append(tasks, Task(attrs[EventName(last'.event)],
                                             EventName(last'.event),
                                             last'.args, last'.kwargs))]_vars

\* a dispatch of one event has just returned that removed the only waiter of
\* its list and scheduled its handler, while the other event has a pending
\* waiter in its list
C19_Witness ==
    /\ last.op = "dispatch"
    /\ last.scheduled
    /\ Len(last.listeners) = 1
    /\ last.event \notin DOMAIN listeners
    /\ \E e \in DOMAIN listeners :
          /\ e # last.event
          /\ \E w \in Range(listeners[e]) : futures[w].state = "pending"
====
